---- MODULE Spec2Model ----
(***************************************************************************)
(* Model of the Cancer micro-service platform:                             *)
(*   - the module-market registry (src/modules/module-market/backend/      *)
(*     server.js): directory scan, in-memory cache, query endpoints;       *)
(*   - the API gateway (src/api-gateway/index.js): discovery fetch,        *)
(*     proxy registration on the Express handler stack, request dispatch.  *)
(* A path is a sequence of its segments ("/api/x/items" is                 *)
(* <<"api","x","items">>); a JavaScript value that is absent is Undef.     *)
(***************************************************************************)
EXTENDS Integers, Sequences, FiniteSets, TLC

VARIABLES
    fs,             \* descriptor store: directory name -> what the directory holds
    dirReadable,    \* whether fs.readdirSync(MODULES_DIR) succeeds
    heap,           \* arrays allocated by scanModules: address -> array of records
    cachedModules,  \* server.js `cachedModules`: the address of the published array
    lastScan,       \* the last scanModules call: its call site and its console output
    regRes,         \* last response sent by the registry
    up,             \* set of backend base URLs that currently accept connections
    gwPc,           \* position of startGateway: "start", "fetching", "listening"
    stack,          \* the gateway's Express handler stack, in registration order
    tableSource,    \* which modules the proxies were built from: Unbuilt/Default/Live
    ticks,          \* number of setInterval callbacks run so far
    lastTick,       \* history: whether the registry was reachable when the last one ran
    gwRes,          \* last response sent by the gateway
    inflight,       \* the request a proxy has sent to its backend and not yet answered
    loop,           \* what the registry's one JavaScript thread is executing
    waiting,        \* registry requests that have arrived and whose handler has not run
    users,          \* the user service's `users` array
    nextId,         \* the number of the next id uuidv4() hands out
    userRes         \* last response sent by the user service

vars == <<fs, dirReadable, heap, cachedModules, lastScan, regRes,
          up, gwPc, stack, tableSource, ticks, lastTick, gwRes, inflight,
          loop, waiting, users, nextId, userRes>>

regVars == <<heap, cachedModules, lastScan, regRes>>
gwVars  == <<gwPc, stack, tableSource, ticks, lastTick, gwRes, inflight>>
loopVars == <<loop, waiting>>
userVars == <<users, nextId, userRes>>

----------------------------------------------------------------------------
(* Bounds *)

\* number of setInterval callbacks explored
MaxTicks == 2

\* number of users created by POST /api/users
MaxCreates == 2

----------------------------------------------------------------------------
(* Values *)

Undef == "undefined"

\* module directories below MODULES_DIR, in readdirSync order
Dirs == <<"module-a", "module-b">>

DirIx == 1..Len(Dirs)

\* a parsed module.json; an absent field is Undef, an absent prefix is <<>>
Descriptor(name, displayName, description, type, enabled, url, prefix) ==
    [name |-> name, displayName |-> displayName, description |-> description,
     type |-> type, enabled |-> enabled, backendUrl |-> url, backendPrefix |-> prefix]

DescX == Descriptor("module-x", "X", "Box", "business", "true", "http://x:9000", <<"api", "x">>)
DescY == Descriptor("module-y", "Y", Undef, Undef, Undef, "http://y:9000", <<>>)
DescNoName == Descriptor(Undef, "Z", Undef, "tool", "false", Undef, <<>>)
DescNoDisplay == Descriptor("module-w", Undef, Undef, "tool", "true", Undef, <<>>)
\* a module mounted on /api, and one that declares the prefix of module-x
DescApi == Descriptor("module-api", "Api", Undef, "core", "true", "http://api:9000", <<"api">>)
DescX2 == Descriptor("module-x2", "X2", Undef, "business", "true", "http://x2:9000",
                     <<"api", "x">>)

\* what a directory entry of MODULES_DIR can be
\*   kind "other":     not a directory, or its name does not start with module-
\*   kind "nofile":    a module directory without module.json
\*   kind "malformed": module.json is not JSON
\*   kind "parsed":    module.json parses to the object desc
Entry(kind, desc, backendDir, frontendDir) ==
    [kind |-> kind, desc |-> desc, backendDir |-> backendDir, frontendDir |-> frontendDir]

NotAModule == Entry("other", DescNoName, FALSE, FALSE)
NoFile == Entry("nofile", DescNoName, FALSE, FALSE)
Malformed == Entry("malformed", DescNoName, TRUE, FALSE)
ModuleX == Entry("parsed", DescX, TRUE, TRUE)
ModuleY == Entry("parsed", DescY, TRUE, FALSE)
ModuleNoName == Entry("parsed", DescNoName, FALSE, TRUE)
ModuleNoDisplay == Entry("parsed", DescNoDisplay, FALSE, FALSE)
ModuleApi == Entry("parsed", DescApi, TRUE, FALSE)
ModuleX2 == Entry("parsed", DescX2, TRUE, FALSE)

FsEntries ==
    {NotAModule, NoFile, Malformed, ModuleX, ModuleY, ModuleNoName, ModuleNoDisplay,
     ModuleApi, ModuleX2}

----------------------------------------------------------------------------
(* Registry: scanModules *)

\* lines 58-63: the record pushed for a parsed descriptor
ModuleRecord(dir, e) ==
    [name |-> e.desc.name, displayName |-> e.desc.displayName,
     description |-> e.desc.description, type |-> e.desc.type, enabled |-> e.desc.enabled,
     backendUrl |-> e.desc.backendUrl, backendPrefix |-> e.desc.backendPrefix,
     path |-> dir, hasBackend |-> e.backendDir, hasFrontend |-> e.frontendDir]

\* lines 47-72: the loop over the directory entries, from entry i on
RECURSIVE ScanEntries(_, _, _, _)
ScanEntries(fsv, i, modules, diagnostics) ==
    IF i > Len(Dirs) THEN [modules |-> modules, diagnostics |-> diagnostics, error |-> FALSE]
    ELSE LET dir == Dirs[i]
             e == fsv[dir]
         IN  CASE e.kind = "parsed" ->
                    ScanEntries(fsv, i + 1, Append(modules, ModuleRecord(dir, e)), diagnostics)
               [] e.kind = "malformed" ->
                    ScanEntries(fsv, i + 1, modules, Append(diagnostics, dir))
               [] OTHER ->
                    ScanEntries(fsv, i + 1, modules, diagnostics)

\* a scan that logs the readdirSync error and goes on with the entries
scanModulesGoesOn(fsv, readable) ==
    [ScanEntries(fsv, 1, <<>>, <<>>) EXCEPT !.error = ~readable]

\* lines 38-80: a failing readdirSync is caught and the empty list returned
scanModules(fsv, readable) ==
    IF readable THEN ScanEntries(fsv, 1, <<>>, <<>>)
    ELSE [modules |-> <<>>, diagnostics |-> <<>>, error |-> TRUE]

\* line 165: the array scanModules returned is a fresh one; the variable is
\* pointed at it and the array it held before becomes garbage
NewAddr(ref) == 3 - ref

PublishInPlace(h, ref, arr) == [heap |-> [h EXCEPT ![ref] = arr], ref |-> ref]

Publish(h, ref, arr) == [heap |-> (NewAddr(ref) :> arr), ref |-> NewAddr(ref)]

\* the array `cachedModules` refers to
Current == heap[cachedModules]

----------------------------------------------------------------------------
(* Registry: strings of the query filters *)

\* the characters of every string a name, displayName, description or search holds
Chars(s) ==
    CASE s = "module-x" -> <<"m", "o", "d", "u", "l", "e", "-", "x">>
      [] s = "module-y" -> <<"m", "o", "d", "u", "l", "e", "-", "y">>
      [] s = "module-w" -> <<"m", "o", "d", "u", "l", "e", "-", "w">>
      [] s = "X" -> <<"X">>
      [] s = "Y" -> <<"Y">>
      [] s = "Z" -> <<"Z">>
      [] s = "Box" -> <<"B", "o", "x">>
      [] s = "OX" -> <<"O", "X">>
      [] s = "le-" -> <<"l", "e", "-">>

toLowerChar(c) ==
    CASE c = "X" -> "x" [] c = "Y" -> "y" [] c = "Z" -> "z"
      [] c = "B" -> "b" [] c = "O" -> "o" [] OTHER -> c

toLowerCase(cs) == [i \in DOMAIN cs |-> toLowerChar(cs[i])]

includes(hay, needle) ==
    \E i \in 0..(Len(hay) - Len(needle)) : SubSeq(hay, i + 1, i + Len(needle)) = needle

\* lines 108-112 for one record: "throw" is the TypeError of undefined.toLowerCase()
SearchOutcome(m, search) ==
    LET needle == toLowerCase(Chars(search))
        In(field) == includes(toLowerCase(Chars(field)), needle)
    IN  IF m.name = Undef THEN "throw"
        ELSE IF In(m.name) THEN "match"
        ELSE IF m.displayName = Undef THEN "throw"
        ELSE IF In(m.displayName) THEN "match"
        ELSE IF m.description # Undef /\ In(m.description) THEN "match"
        ELSE "nomatch"

\* Array.prototype.filter of lines 108-112: stops at the first record that throws
RECURSIVE SearchFilter(_, _, _, _)
SearchFilter(modules, search, i, acc) ==
    IF i > Len(modules) THEN [threw |-> FALSE, list |-> acc]
    ELSE LET o == SearchOutcome(modules[i], search)
         IN  IF o = "throw" THEN [threw |-> TRUE, list |-> <<>>]
             ELSE SearchFilter(modules, search, i + 1,
                               IF o = "match" THEN Append(acc, modules[i]) ELSE acc)

----------------------------------------------------------------------------
(* Registry: responses and handlers *)

TypeKeys == {"core", "business", "tool", "unknown"}

NoStats == [total |-> 0, enabled |-> 0, disabled |-> 0, withBackend |-> 0,
            withFrontend |-> 0, byType |-> [t \in TypeKeys |-> 0]]

\* the parameters of a registry request: the query of GET /api/modules and
\* the :name of GET /api/modules/:name
Query(type, enabled, search, name) ==
    [type |-> type, enabled |-> enabled, search |-> search, name |-> name]

NoQuery == Query(Undef, Undef, Undef, Undef)

\* a registry response: op names the handler and req the request's parameters,
\* list holds the records of the body, count the body's count / modulesCount,
\* stats the body of /api/stats
RegResponse(op, req, status, list, count, stats) ==
    [op |-> op, req |-> req, status |-> status, list |-> list, count |-> count,
     stats |-> stats]

NoRegResponse == RegResponse("none", NoQuery, 0, <<>>, 0, NoStats)

\* lines 89-116
ModulesQuery(cached, type, enabled, search) ==
    LET byType == IF type # Undef
                  THEN SelectSeq(cached, LAMBDA m : m.type = type)
                  ELSE cached
        isEnabled == IF enabled = "true" THEN "true" ELSE "false"
        byEnabled == IF enabled # Undef
                     THEN SelectSeq(byType, LAMBDA m : m.enabled = isEnabled)
                     ELSE byType
        bySearch == IF search # Undef
                    THEN SearchFilter(byEnabled, search, 1, <<>>)
                    ELSE [threw |-> FALSE, list |-> byEnabled]
        req == Query(type, enabled, search, Undef)
    IN  IF bySearch.threw
        THEN RegResponse("modules", req, 500, <<>>, 0, NoStats)
        ELSE RegResponse("modules", req, 200, bySearch.list, 0, NoStats)

\* lines 122-134
ModuleByName(cached, name) ==
    LET hits == SelectSeq(cached, LAMBDA m : m.name = name)
        req == Query(Undef, Undef, Undef, name)
    IN  IF hits = <<>>
        THEN RegResponse("module", req, 404, <<>>, 0, NoStats)
        ELSE RegResponse("module", req, 200, <<hits[1]>>, 0, NoStats)

\* lines 141-154: the stats object
StatsBody(cached) ==
    [total |-> Len(cached),
     enabled |-> Len(SelectSeq(cached, LAMBDA m : m.enabled = "true")),
     disabled |-> Len(SelectSeq(cached, LAMBDA m : m.enabled # "true")),
     withBackend |-> Len(SelectSeq(cached, LAMBDA m : m.hasBackend)),
     withFrontend |-> Len(SelectSeq(cached, LAMBDA m : m.hasFrontend)),
     byType |-> [t \in TypeKeys |->
                   Len(SelectSeq(cached,
                       LAMBDA m : (IF m.type = Undef THEN "unknown" ELSE m.type) = t))]]

\* lines 140-157
Stats(cached) == RegResponse("stats", NoQuery, 200, <<>>, 0, StatsBody(cached))

\* lines 177-184
Health(cached) == RegResponse("health", NoQuery, 200, <<>>, Len(cached), NoStats)

QueryTypes == {Undef, "tool"}
QueryEnabled == {Undef, "true", "false"}
QuerySearch == {Undef, "OX", "le-"}
QueryNames == {"module-x", "module-q"}

\* GET /api/modules
GetModules(type, enabled, search) ==
    /\ regRes' = ModulesQuery(Current, type, enabled, search)
    /\ UNCHANGED <<userVars, loopVars, fs, dirReadable, heap, cachedModules, lastScan,
                   up, gwVars>>

\* GET /api/modules/:name
GetModuleByName(name) ==
    /\ regRes' = ModuleByName(Current, name)
    /\ UNCHANGED <<userVars, loopVars, fs, dirReadable, heap, cachedModules, lastScan,
                   up, gwVars>>

\* GET /api/stats
GetStats ==
    /\ regRes' = Stats(Current)
    /\ UNCHANGED <<userVars, loopVars, fs, dirReadable, heap, cachedModules, lastScan,
                   up, gwVars>>

\* GET /health of the registry
GetHealth ==
    /\ regRes' = Health(Current)
    /\ UNCHANGED <<userVars, loopVars, fs, dirReadable, heap, cachedModules, lastScan,
                   up, gwVars>>

\* POST /api/refresh, lines 163-171
PostRefresh ==
    LET scan == scanModules(fs, dirReadable)
        pub == Publish(heap, cachedModules, scan.modules)
    IN  /\ heap' = pub.heap
        /\ cachedModules' = pub.ref
        /\ lastScan' = [call |-> "refresh", diagnostics |-> scan.diagnostics,
                        error |-> scan.error]
        /\ regRes' = RegResponse("refresh", NoQuery, 200, <<>>, Len(scan.modules), NoStats)
        /\ UNCHANGED <<userVars, loopVars, fs, dirReadable, up, gwVars>>

----------------------------------------------------------------------------
(* Registry: the thread that serves the requests *)

\* Node runs every handler of server.js on one thread, each to its end.
\* scanModules is synchronous (readdirSync, existsSync, readFileSync), so the
\* handler of POST /api/refresh holds the thread from its call of
\* scanModules (line 165) until scanModules returns; the two steps below are
\* that call and that return, and requests that arrive in between wait.

\* the requests followed while they wait
LoopOps == {"stats", "health"}

\* a client's request reaches the registry's socket
RequestArrives(op) ==
    /\ op \notin waiting
    /\ waiting' = waiting \cup {op}
    /\ UNCHANGED <<userVars, loop, fs, dirReadable, regVars, up, gwVars>>

\* the thread is free and runs the handler of a request that has arrived
ServeWaiting(op) ==
    /\ loop = "idle"
    /\ op \in waiting
    /\ waiting' = waiting \ {op}
    /\ regRes' = (IF op = "stats" THEN Stats(Current) ELSE Health(Current))
    /\ UNCHANGED <<userVars, loop, fs, dirReadable, heap, cachedModules, lastScan, up,
                   gwVars>>

\* lines 163-165: the handler of POST /api/refresh calls scanModules
RefreshCallsScan ==
    /\ loop = "idle"
    /\ loop' = "scanModules"
    /\ UNCHANGED <<userVars, waiting, fs, dirReadable, regVars, up, gwVars>>

\* lines 165-171: scanModules returns to the handler, which publishes the
\* array and responds
RefreshReturns ==
    LET scan == scanModules(fs, dirReadable)
        pub == Publish(heap, cachedModules, scan.modules)
    IN  /\ loop = "scanModules"
        /\ loop' = "idle"
        /\ heap' = pub.heap
        /\ cachedModules' = pub.ref
        /\ lastScan' = [call |-> "refresh", diagnostics |-> scan.diagnostics,
                        error |-> scan.error]
        /\ regRes' = RegResponse("refresh", NoQuery, 200, <<>>, Len(scan.modules), NoStats)
        /\ UNCHANGED <<userVars, waiting, fs, dirReadable, up, gwVars>>

----------------------------------------------------------------------------
(* Environment: the descriptor store *)

DirSet == {Dirs[i] : i \in DirIx}

\* a module directory's content is replaced
FsWrite(d, e) ==
    /\ fs[d] # e
    /\ fs' = [fs EXCEPT ![d] = e]
    /\ UNCHANGED <<userVars, loopVars, dirReadable, regVars, up, gwVars>>

\* MODULES_DIR becomes unreadable, or readable again
FsSetReadable ==
    /\ dirReadable' = ~dirReadable
    /\ UNCHANGED <<userVars, loopVars, fs, regVars, up, gwVars>>

----------------------------------------------------------------------------
(* Gateway: the Express handler stack *)

MODULE_MARKET_URL == "http://localhost:3001"

NoPath == <<>>

\* one app.use / app.get registration
Layer(kind, method, path, target, module) ==
    [kind |-> kind, method |-> method, path |-> path, target |-> target, module |-> module]

\* the registrations made while index.js is loaded, in source order:
\* lines 24-26 and 29-32 call next(); 130 and 141 are routes; 153 answers
\* every request that reaches it; 164 takes four arguments (errors only)
StaticStack ==
    << Layer("passthrough", Undef, NoPath, Undef, "cors"),
       Layer("passthrough", Undef, NoPath, Undef, "bodyParser.json"),
       Layer("passthrough", Undef, NoPath, Undef, "bodyParser.urlencoded"),
       Layer("passthrough", Undef, NoPath, Undef, "logger"),
       Layer("route", "GET", <<"health">>, Undef, "health"),
       Layer("route", "GET", <<"api", "gateway", "status">>, Undef, "status"),
       Layer("catchAll", Undef, NoPath, Undef, "notFound"),
       Layer("errorHandler", Undef, NoPath, Undef, "error") >>

\* lines 55-73
getDefaultModules ==
    << [name |-> "module-market", backendUrl |-> "http://localhost:3001",
        backendPrefix |-> <<"api", "module-market">>],
       [name |-> "module-user", backendUrl |-> "http://localhost:3002",
        backendPrefix |-> <<"api", "user">>] >>

\* a proxy always mounted on /api/<name>
ProxyLayerByName(m) == Layer("proxy", Undef, <<"api", m.name>>, m.backendUrl, m.name)

\* lines 85-87: the proxy registered for one module
ProxyLayer(m) ==
    Layer("proxy", Undef,
          IF m.backendPrefix # <<>> THEN m.backendPrefix ELSE <<"api", m.name>>,
          m.backendUrl, m.name)

\* lines 84-119: modules.forEach, appending to the stack with app.use
RECURSIVE RegisterProxies(_, _, _)
RegisterProxies(stk, modules, i) ==
    IF i > Len(modules) THEN stk
    ELSE RegisterProxies(
             IF modules[i].backendUrl # Undef THEN Append(stk, ProxyLayer(modules[i])) ELSE stk,
             modules, i + 1)

\* the proxy registrations of a stack, in order: the route table
RouteTable(stk) == SelectSeq(stk, LAMBDA l : l.kind = "proxy")

\* Express compares paths case-insensitively
LowerSeg(seg) == CASE seg = "API" -> "api" [] seg = "X" -> "x" [] OTHER -> seg

\* Express mount-path match of app.use(prefix, ...): whole leading segments
MountMatches(prefix, path) ==
    /\ Len(prefix) <= Len(path)
    /\ \A i \in 1..Len(prefix) : LowerSeg(prefix[i]) = LowerSeg(path[i])

\* Express route match of app.get(path, ...)
RouteMatches(layer, method, path) ==
    /\ layer.method = method
    /\ Len(layer.path) = Len(path)
    /\ \A i \in 1..Len(path) : LowerSeg(layer.path[i]) = LowerSeg(path[i])

\* line 99, path.replace(prefix, ''): the first occurrence of prefix is cut out
replace(path, prefix) ==
    LET n == Len(prefix)
        at == {i \in 1..(Len(path) - n + 1) : SubSeq(path, i, i + n - 1) = prefix}
    IN  IF at = {} THEN path
        ELSE LET i == CHOOSE k \in at : \A j \in at : k <= j
             IN  SubSeq(path, 1, i - 1) \o SubSeq(path, i + n, Len(path))

\* a gateway response: by names the handler that answered; fwdMethod, target
\* and fwdPath are the request sent to a backend, if one was sent
GwResponse(method, path, status, by, fwdMethod, target, fwdPath, module) ==
    [method |-> method, path |-> path, status |-> status, by |-> by,
     fwdMethod |-> fwdMethod, target |-> target, fwdPath |-> fwdPath, module |-> module]

NoGwResponse == GwResponse(Undef, NoPath, 0, "none", Undef, Undef, NoPath, Undef)

\* a response made by a proxy: the backend's, or the 502 of onError
Forwarded(res) == res.by \in {"backend", "onError"}

\* lines 92-117: the proxy middleware for a request it is handed
Forward(layer, method, path, reachable) ==
    LET newPath == replace(path, layer.path)
    IN  IF layer.target \in reachable
        THEN GwResponse(method, path, 200, "backend", method, layer.target, newPath, layer.module)
        ELSE GwResponse(method, path, 502, "onError", method, layer.target, newPath, layer.module)

\* a dispatch that passes over a proxy whose backend is down
RECURSIVE DispatchFailover(_, _, _, _, _)
DispatchFailover(stk, i, method, path, reachable) ==
    IF i > Len(stk)
    THEN GwResponse(method, path, 404, "finalhandler", Undef, Undef, NoPath, Undef)
    ELSE LET l == stk[i]
         IN  CASE l.kind = "route" /\ RouteMatches(l, method, path) ->
                    GwResponse(method, path, 200, l.module, Undef, Undef, NoPath, Undef)
               [] l.kind = "catchAll" ->
                    GwResponse(method, path, 404, l.module, Undef, Undef, NoPath, Undef)
               [] l.kind = "proxy" /\ MountMatches(l.path, path) /\ l.target \in reachable ->
                    Forward(l, method, path, reachable)
               [] OTHER ->
                    DispatchFailover(stk, i + 1, method, path, reachable)

\* Express hands the request to the layers in registration order, from layer i on
RECURSIVE Dispatch(_, _, _, _, _)
Dispatch(stk, i, method, path, reachable) ==
    IF i > Len(stk)
    THEN GwResponse(method, path, 404, "finalhandler", Undef, Undef, NoPath, Undef)
    ELSE LET l == stk[i]
         IN  CASE l.kind = "route" /\ RouteMatches(l, method, path) ->
                    GwResponse(method, path, 200, l.module, Undef, Undef, NoPath, Undef)
               [] l.kind = "catchAll" ->
                    GwResponse(method, path, 404, l.module, Undef, Undef, NoPath, Undef)
               [] l.kind = "proxy" /\ MountMatches(l.path, path) ->
                    Forward(l, method, path, reachable)
               [] OTHER ->
                    Dispatch(stk, i + 1, method, path, reachable)

----------------------------------------------------------------------------
(* The module-list request of the shell, and the routes of the registry *)

\* main.js lines 15-16 and 24: GET ${API_GATEWAY_URL}/api/module-market/modules
ModuleListRequest == <<"api", "module-market", "modules">>

\* server.js: the handler Express picks for a request to the registry;
\* "notFound" is the 404 middleware of line 189
RegistryRoute(method, path) ==
    CASE method = "GET" /\ path = <<"api", "modules">> -> "modules"
      [] method = "GET" /\ Len(path) = 3 /\ SubSeq(path, 1, 2) = <<"api", "modules">> -> "module"
      [] method = "GET" /\ path = <<"api", "stats">> -> "stats"
      [] method = "POST" /\ path = <<"api", "refresh">> -> "refresh"
      [] method = "GET" /\ path = <<"health">> -> "health"
      [] OTHER -> "notFound"

----------------------------------------------------------------------------
(* Gateway: startup, timer, requests *)

BackendUrls == {"http://localhost:3001", "http://localhost:3002",
                "http://x:9000", "http://y:9000", "http://api:9000", "http://x2:9000"}

\* backends whose reachability changes while the gateway runs
FlakyUrls == {"http://localhost:3001", "http://x:9000"}

Methods == {"GET", "POST"}

RequestPaths ==
    { <<"api", "x", "items">>, <<"api", "unknown", "items">>,
      <<"api", "user", "users">>, <<"api", "module-market", "modules">>,
      <<"api", "module-y", "items">>, <<"health">> }

\* lines 176-182 up to the await of axios.get (line 40)
StartGateway ==
    /\ gwPc = "start"
    /\ gwPc' = "fetching"
    /\ UNCHANGED <<userVars, loopVars, fs, dirReadable, regVars, up, stack, tableSource,
                   ticks, lastTick, gwRes, inflight>>

\* lines 43-44, 84-121, 185: the registry answered GET /api/modules with its
\* whole snapshot; the proxies are registered and the gateway listens
FetchOk ==
    /\ gwPc = "fetching"
    /\ MODULE_MARKET_URL \in up
    /\ stack' = RegisterProxies(stack, ModulesQuery(Current, Undef, Undef, Undef).list, 1)
    /\ tableSource' = "Live"
    /\ gwPc' = "listening"
    /\ UNCHANGED <<userVars, loopVars, fs, dirReadable, regVars, up, ticks, lastTick,
                   gwRes, inflight>>

\* lines 45-49, 84-121, 185: axios.get failed; the default modules are used
FetchFail ==
    /\ gwPc = "fetching"
    /\ MODULE_MARKET_URL \notin up
    /\ stack' = RegisterProxies(stack, getDefaultModules, 1)
    /\ tableSource' = "Default"
    /\ gwPc' = "listening"
    /\ UNCHANGED <<userVars, loopVars, fs, dirReadable, regVars, up, ticks, lastTick,
                   gwRes, inflight>>

\* a tick that fetches again and registers the proxies on a fresh stack
RefreshTickRebuilds ==
    /\ gwPc = "listening"
    /\ ticks < MaxTicks
    /\ ticks' = ticks + 1
    /\ lastTick' = (IF MODULE_MARKET_URL \in up THEN "up" ELSE "down")
    /\ IF MODULE_MARKET_URL \in up
       THEN /\ stack' = RegisterProxies(StaticStack, Current, 1)
            /\ tableSource' = "Live"
       ELSE /\ stack' = RegisterProxies(StaticStack, getDefaultModules, 1)
            /\ tableSource' = "Default"
    /\ UNCHANGED <<userVars, loopVars, fs, dirReadable, regVars, up, gwPc, gwRes, inflight>>

\* lines 193-197: the setInterval callback logs one line and does nothing else
RefreshTick ==
    /\ gwPc = "listening"
    /\ ticks < MaxTicks
    /\ ticks' = ticks + 1
    /\ lastTick' = (IF MODULE_MARKET_URL \in up THEN "up" ELSE "down")
    /\ UNCHANGED <<userVars, loopVars, fs, dirReadable, regVars, up, gwPc, stack,
                   tableSource, gwRes, inflight>>

\* a gateway that accepts requests before startGateway has reached app.listen
GatewayRequestAnytime(method, path) ==
    /\ gwRes' = Dispatch(stack, 1, method, path, up)
    /\ UNCHANGED <<userVars, loopVars, fs, dirReadable, regVars, up, gwPc, stack,
                   tableSource, ticks, lastTick, inflight>>

\* a client request handled by the listening gateway
GatewayRequest(method, path) ==
    /\ gwPc = "listening"
    /\ gwRes' = Dispatch(stack, 1, method, path, up)
    /\ UNCHANGED <<userVars, loopVars, fs, dirReadable, regVars, up, gwPc, stack,
                   tableSource, ticks, lastTick, inflight>>

\* a backend goes down or comes back
BackendToggle(u) ==
    /\ up' = IF u \in up THEN up \ {u} ELSE up \cup {u}
    /\ UNCHANGED <<userVars, loopVars, fs, dirReadable, regVars, gwVars>>

----------------------------------------------------------------------------
(* Gateway: the proxies setupDynamicRoutes registers, taken by themselves *)

\* In StaticStack the catch-all of line 153 stands before every proxy, so
\* Dispatch never reaches one.  The steps below hand a request to the proxy
\* registrations directly, in their registration order, and follow the
\* exchange createProxyMiddleware then has with the backend.

Exchange(state, method, path) == [state |-> state, method |-> method, path |-> path]

NoExchange == Exchange("none", Undef, NoPath)

\* what the proxies answer to a request when the backends in `reachable` accept
ProxyAnswer(stk, method, path, reachable) ==
    Dispatch(RouteTable(stk), 1, method, path, reachable)

\* lines 85-96: the first registered proxy whose prefix matches takes the
\* request and opens the connection to its target
ProxyReceives(method, path) ==
    /\ gwPc = "listening"
    /\ inflight.state = "none"
    /\ Forwarded(ProxyAnswer(stack, method, path, up))
    /\ inflight' = Exchange("sent", method, path)
    /\ UNCHANGED <<userVars, loopVars, fs, dirReadable, regVars, up, gwPc, stack,
                   tableSource, ticks, lastTick, gwRes>>

\* the backend answers and the proxy relays the answer
BackendReplies ==
    /\ inflight.state = "sent"
    /\ LET r == ProxyAnswer(stack, inflight.method, inflight.path, up)
       IN  r.by = "backend" /\ gwRes' = r
    /\ inflight' = NoExchange
    /\ UNCHANGED <<userVars, loopVars, fs, dirReadable, regVars, up, gwPc, stack,
                   tableSource, ticks, lastTick>>

\* the backend has accepted the connection and sends no answer
BackendStalls ==
    /\ inflight.state = "sent"
    /\ ProxyAnswer(stack, inflight.method, inflight.path, up).by = "backend"
    /\ inflight' = [inflight EXCEPT !.state = "stalled"]
    /\ UNCHANGED <<userVars, loopVars, fs, dirReadable, regVars, up, gwPc, stack,
                   tableSource, ticks, lastTick, gwRes>>

\* lines 102-109, onError: the connection is refused, or reset because the
\* backend went away; lines 92-117 pass no timeout or proxyTimeout option, so
\* nothing else ends the exchange
ProxyError ==
    /\ inflight.state \in {"sent", "stalled"}
    /\ LET r == ProxyAnswer(stack, inflight.method, inflight.path, up)
       IN  r.by = "onError" /\ gwRes' = r
    /\ inflight' = NoExchange
    /\ UNCHANGED <<userVars, loopVars, fs, dirReadable, regVars, up, gwPc, stack,
                   tableSource, ticks, lastTick>>

----------------------------------------------------------------------------
(* The user service, src/unnamed/part_000 *)

\* A value of a JSON body is a string or, parsed by bodyParser, an array;
\* Str("") is the empty string and Missing a field the body does not have.
Str(text) == [kind |-> "string", text |-> text]

Missing == [kind |-> "undefined", text |-> Undef]

\* the array [text]
Arr(text) == [kind |-> "array", text |-> text]

\* JavaScript truthiness of a body field
Truthy(v) == v # Missing /\ v # Str("")

\* stored === incoming, for an incoming value that the body parser has just
\* made: strings are equal by content, an array is an object of its own and
\* equal to no value stored before
StrictEquals(stored, incoming) ==
    stored.kind = "string" /\ incoming.kind = "string" /\ stored.text = incoming.text

\* a user record, reduced to the fields the handlers compare: ids are
\* numbered in the order uuidv4() made them
User(id, username) == [id |-> id, username |-> username]

\* lines 30-67
InitialUsers ==
    << User(1, Str("admin")), User(2, Str("user1")),
       User(3, Str("user2")), User(4, Str("user3")) >>

Body(username, name, email) == [username |-> username, name |-> name, email |-> email]

NoBody == Body(Missing, Missing, Missing)

\* a response of the user service, with the request it answers
UserResponse(op, id, body, status) == [op |-> op, id |-> id, body |-> body, status |-> status]

NoUserResponse == UserResponse("none", 0, NoBody, 0)

\* the positions of the users with an id (findIndex is the least of them)
IndexOf(list, id) == {i \in DOMAIN list : list[i].id = id}

\* POST /api/users, lines 137-171
PostUser(body) ==
    /\ IF ~Truthy(body.username) \/ ~Truthy(body.name) \/ ~Truthy(body.email)
       THEN /\ userRes' = UserResponse("post", 0, body, 400)
            /\ UNCHANGED <<users, nextId>>
       ELSE IF \E i \in DOMAIN users : StrictEquals(users[i].username, body.username)
       THEN /\ userRes' = UserResponse("post", 0, body, 409)
            /\ UNCHANGED <<users, nextId>>
       ELSE /\ nextId <= Len(InitialUsers) + MaxCreates
            /\ users' = Append(users, User(nextId, body.username))
            /\ nextId' = nextId + 1
            /\ userRes' = UserResponse("post", 0, body, 201)
    /\ UNCHANGED <<loopVars, fs, dirReadable, regVars, up, gwVars>>

\* PUT /api/users/:id, lines 177-212
PutUser(id, body) ==
    /\ IF IndexOf(users, id) = {}
       THEN /\ userRes' = UserResponse("put", id, body, 404)
            /\ UNCHANGED users
       ELSE LET userIndex == CHOOSE i \in IndexOf(users, id) : \A j \in IndexOf(users, id) : i <= j
            IN  IF /\ Truthy(body.username)
                   /\ ~StrictEquals(users[userIndex].username, body.username)
                   /\ \E i \in DOMAIN users :
                          StrictEquals(users[i].username, body.username) /\ users[i].id # id
                THEN /\ userRes' = UserResponse("put", id, body, 409)
                     /\ UNCHANGED users
                ELSE /\ users' = [users EXCEPT ![userIndex].username =
                                      IF Truthy(body.username) THEN body.username ELSE @]
                     /\ userRes' = UserResponse("put", id, body, 200)
    /\ UNCHANGED <<nextId, loopVars, fs, dirReadable, regVars, up, gwVars>>

\* DELETE /api/users/:id, lines 218-238
DeleteUser(id) ==
    /\ IF IndexOf(users, id) = {}
       THEN /\ userRes' = UserResponse("delete", id, NoBody, 404)
            /\ UNCHANGED users
       ELSE LET userIndex == CHOOSE i \in IndexOf(users, id) : \A j \in IndexOf(users, id) : i <= j
            IN  /\ users' = [i \in 1..(Len(users) - 1) |->
                                 IF i < userIndex THEN users[i] ELSE users[i + 1]]
                /\ userRes' = UserResponse("delete", id, NoBody, 200)
    /\ UNCHANGED <<nextId, loopVars, fs, dirReadable, regVars, up, gwVars>>

\* the usernames requests carry
UsernameInputs == {Missing, Str("admin"), Str("alice"), Arr("alice")}

\* the bodies of POST: complete ones, and ones that lack a required field
PostBodies ==
    {Body(u, Str("Ann"), Str("ann@cancer.com")) : u \in UsernameInputs}
        \cup {Body(Str("alice"), Missing, Str("ann@cancer.com")),
              Body(Str("alice"), Str("Ann"), Str(""))}

\* the bodies of PUT: a new username, or none
PutBodies == {Body(u, Missing, Missing) : u \in UsernameInputs}

\* the ids of requests: an initial user, the first created user, nobody
RequestIds == {1, 5, 99}

----------------------------------------------------------------------------
(* Specifications *)

\* line 83: the cache is filled by a first scan while server.js is loaded;
\* lines 17-32, 130-171 of index.js: the static registrations
InitWith(stores, readables) ==
    /\ fs \in stores
    /\ dirReadable \in readables
    /\ cachedModules = 1
    /\ heap = (1 :> scanModules(fs, dirReadable).modules)
    /\ lastScan = [call |-> "load", diagnostics |-> scanModules(fs, dirReadable).diagnostics,
                   error |-> scanModules(fs, dirReadable).error]
    /\ regRes = NoRegResponse
    /\ up = BackendUrls
    /\ gwPc = "start"
    /\ stack = StaticStack
    /\ tableSource = "Unbuilt"
    /\ ticks = 0
    /\ lastTick = "none"
    /\ gwRes = NoGwResponse
    /\ inflight = NoExchange
    /\ loop = "idle"
    /\ waiting = {}
    /\ users = InitialUsers
    /\ nextId = Len(InitialUsers) + 1
    /\ userRes = NoUserResponse

\* directory contents explored together with the gateway
GatewayEntriesOf(d) == IF d = Dirs[1] THEN {NoFile, ModuleX} ELSE {NoFile, ModuleY}

GatewayStores == {f \in [DirSet -> FsEntries] : \A d \in DirSet : f[d] \in GatewayEntriesOf(d)}

Init == InitWith(GatewayStores, {TRUE})

\* the gateway, with the registry it discovers and the backends it forwards to
Next ==
    \/ StartGateway
    \/ FetchOk
    \/ FetchFail
    \/ RefreshTick
    \/ \E m \in Methods, p \in RequestPaths : GatewayRequest(m, p)
    \/ \E u \in FlakyUrls : BackendToggle(u)
    \/ \E d \in DirSet : \E e \in GatewayEntriesOf(d) : FsWrite(d, e)
    \/ PostRefresh

Spec == Init /\ [][Next]_vars

\* directory contents explored with the registry alone
RegistryEntriesOf(d) ==
    IF d = Dirs[1]
    THEN {NotAModule, NoFile, Malformed, ModuleX, ModuleY, ModuleNoName, ModuleNoDisplay}
    ELSE {NoFile, Malformed, ModuleX, ModuleNoName}

RegistryStores == {f \in [DirSet -> FsEntries] : \A d \in DirSet : f[d] \in RegistryEntriesOf(d)}

InitRegistry == InitWith(RegistryStores, BOOLEAN)

\* the registry alone, with its descriptor store
NextRegistry ==
    \/ \E d \in DirSet : \E e \in RegistryEntriesOf(d) : FsWrite(d, e)
    \/ FsSetReadable
    \/ PostRefresh
    \/ \E t \in QueryTypes, en \in QueryEnabled, s \in QuerySearch : GetModules(t, en, s)
    \/ \E n \in QueryNames : GetModuleByName(n)
    \/ GetStats
    \/ GetHealth

SpecRegistry == InitRegistry /\ [][NextRegistry]_vars

InitLoop == InitWith(GatewayStores, BOOLEAN)

\* the registry's thread, with the requests that arrive while it is busy
NextLoop ==
    \/ \E d \in DirSet : \E e \in GatewayEntriesOf(d) : FsWrite(d, e)
    \/ FsSetReadable
    \/ \E op \in LoopOps : RequestArrives(op)
    \/ \E op \in LoopOps : ServeWaiting(op)
    \/ RefreshCallsScan
    \/ RefreshReturns

SpecLoop == InitLoop /\ [][NextLoop]_vars

InitUsers == InitWith({[d \in DirSet |-> NoFile]}, {TRUE})

\* the user service alone
NextUsers ==
    \/ \E body \in PostBodies : PostUser(body)
    \/ \E id \in RequestIds, body \in PutBodies : PutUser(id, body)
    \/ \E id \in RequestIds : DeleteUser(id)

SpecUsers == InitUsers /\ [][NextUsers]_vars

\* directory contents explored with the proxies: overlapping prefixes
\* (/api before /api/module-y or /api/x), one prefix declared twice, a
\* descriptor without backend
ProxyEntriesOf(d) ==
    IF d = Dirs[1] THEN {ModuleX, ModuleApi, ModuleNoDisplay} ELSE {ModuleY, ModuleX2}

ProxyStores == {f \in [DirSet -> FsEntries] : \A d \in DirSet : f[d] \in ProxyEntriesOf(d)}

InitProxy == InitWith(ProxyStores, {TRUE})

ProxyFlakyUrls == {"http://localhost:3001", "http://x:9000", "http://x2:9000"}

ProxyPaths ==
    { <<"api", "x">>, <<"api", "x", "items">>, <<"api", "module-y", "items">>,
      <<"api", "user", "users">>, <<"health">> }

\* the gateway's startup and the requests its proxies are handed
NextProxy ==
    \/ StartGateway
    \/ FetchOk
    \/ FetchFail
    \/ \E u \in ProxyFlakyUrls : BackendToggle(u)
    \/ \E m \in Methods, p \in ProxyPaths : ProxyReceives(m, p)
    \/ BackendReplies
    \/ BackendStalls
    \/ ProxyError

SpecProxy == InitProxy /\ [][NextProxy]_vars

----------------------------------------------------------------------------
(* Properties of the gateway, checked under Spec *)

Table == RouteTable(stack)

\* path is prefix followed by a non-empty remainder
Under(prefix, path) ==
    /\ Len(prefix) < Len(path)
    /\ SubSeq(path, 1, Len(prefix)) = prefix

Remainder(prefix, path) == SubSeq(path, Len(prefix) + 1, Len(path))

Answered == gwRes.by # "none"

OwnRoute(path) == path \in {<<"health">>, <<"api", "gateway", "status">>}

\* C1: a request under the prefix P of a rule of the table is forwarded, with
\* its method, to the rule's url U and the remainder of the path; a request
\* under no rule's prefix (and not one of the gateway's own routes) gets 404.
C1_RouteResolution ==
    Answered =>
        /\ \A k \in 1..Len(Table) :
               Under(Table[k].path, gwRes.path) =>
                   /\ Forwarded(gwRes)
                   /\ gwRes.fwdMethod = gwRes.method
                   /\ gwRes.target = Table[k].target
                   /\ gwRes.fwdPath = Remainder(Table[k].path, gwRes.path)
        /\ ( /\ \A k \in 1..Len(Table) : ~Under(Table[k].path, gwRes.path)
             /\ ~OwnRoute(gwRes.path) ) => gwRes.status = 404

\* C2: a request under the prefix of a rule whose backend is unreachable is
\* answered 502 naming the rule's module, a request under the prefix of a rule
\* whose backend is reachable succeeds, and handling a request leaves the
\* handler stack as it was.
C2_FailureIsolation ==
    [][ gwRes' # gwRes =>
          /\ stack' = stack
          /\ \A k \in 1..Len(Table) :
                 Under(Table[k].path, gwRes'.path) =>
                     IF Table[k].target \in up
                     THEN gwRes'.status = 200 /\ gwRes'.by = "backend"
                     ELSE gwRes'.status = 502 /\ gwRes'.module = Table[k].module ]_vars

DefaultTable == RouteTable(RegisterProxies(<<>>, getDefaultModules, 1))

\* C3: a gateway whose startup fetch failed listens with the default table,
\* and answers requests under /api/module-market and /api/user by forwarding.
C3_DegradedStartup ==
    (gwPc = "listening" /\ tableSource = "Default") =>
        /\ Table = DefaultTable
        /\ \A k \in 1..Len(DefaultTable) :
               (Answered /\ Under(DefaultTable[k].path, gwRes.path)) =>
                   Forwarded(gwRes) /\ gwRes.target = DefaultTable[k].target

\* C8: a tick at which the registry is reachable leaves the gateway with the
\* table built from the registry's current snapshot.
C8_TickPublishesNewTable ==
    [][ (ticks' = ticks + 1 /\ MODULE_MARKET_URL \in up) =>
          RouteTable(stack') = RouteTable(RegisterProxies(<<>>, Current, 1)) ]_vars

\* C9: a tick at which the registry is unreachable changes neither the handler
\* stack nor the source of the table.
C9_FailedTickKeepsTable ==
    [][ (ticks' = ticks + 1 /\ MODULE_MARKET_URL \notin up) =>
          (stack' = stack /\ tableSource' = tableSource) ]_vars

C9_Witness ==
    /\ lastTick = "down"
    /\ tableSource = "Live"
    /\ Table # <<>>

\* C10: the table's source only moves forward along Unbuilt, Default, Live:
\* from Live it stays Live, from Default it never becomes Unbuilt again.
C10_NoReturnToDefault ==
    [][ /\ tableSource = "Live" => tableSource' = "Live"
        /\ tableSource = "Default" => tableSource' \in {"Default", "Live"} ]_vars

C10_Witness ==
    /\ tableSource = "Live"
    /\ lastTick = "down"
    /\ MODULE_MARKET_URL \notin up
    /\ gwRes.status = 404

\* the module directories whose module.json parses, in scan order
ParsedDirs == SelectSeq(Dirs, LAMBDA d : fs[d].kind = "parsed")

\* the snapshot holds what the descriptor store holds now
SnapshotReflectsStore ==
    Current = [i \in DOMAIN ParsedDirs |-> ModuleRecord(ParsedDirs[i], fs[ParsedDirs[i]])]

\* C15: refresh is idempotent: when the descriptor store is as the snapshot
\* was taken from, a registry refresh publishes a snapshot equal by content
\* to the one before, and a gateway refresh after it leaves a route table
\* equal by content to the one before, however often both are repeated.
C15_IdempotentRefresh ==
    [][ /\ (regRes'.op = "refresh" /\ cachedModules' # cachedModules
             /\ SnapshotReflectsStore)
            => heap'[cachedModules'] = Current
        /\ ticks' # ticks => RouteTable(stack') = Table ]_vars

----------------------------------------------------------------------------
(* Properties of the registry, checked under SpecRegistry *)

HasRequiredFields(desc) == desc.name # Undef /\ desc.displayName # Undef

ValidDirs(fsv) == {d \in DirSet : fsv[d].kind = "parsed" /\ HasRequiredFields(fsv[d].desc)}

InvalidDirs(fsv) ==
    {d \in DirSet : \/ fsv[d].kind = "malformed"
                    \/ fsv[d].kind = "parsed" /\ ~HasRequiredFields(fsv[d].desc)}

Range(seq) == {seq[i] : i \in DOMAIN seq}

\* C4: a scan of a readable directory returns one record for each valid
\* descriptor and one diagnostic for each invalid one, and nothing else.
C4_ScanCounts ==
    [][ (PostRefresh /\ dirReadable) =>
          /\ Len(heap'[cachedModules']) = Cardinality(ValidDirs(fs))
          /\ {m.path : m \in Range(heap'[cachedModules'])} = ValidDirs(fs)
          /\ Len(lastScan'.diagnostics) = Cardinality(InvalidDirs(fs))
          /\ Range(lastScan'.diagnostics) = InvalidDirs(fs) ]_vars

\* C5: every record of the published snapshot has name and displayName, and
\* no query fails on a record that lacks one.
C5_RequiredFields ==
    /\ \A i \in DOMAIN Current : HasRequiredFields(Current[i])
    /\ regRes.status # 500

\* the response of read endpoint op to the request req over a snapshot
ReadResponse(op, req, snapshot) ==
    CASE op = "modules" -> ModulesQuery(snapshot, req.type, req.enabled, req.search)
      [] op = "module" -> ModuleByName(snapshot, req.name)
      [] op = "stats" -> Stats(snapshot)
      [] op = "health" -> Health(snapshot)

ReadOps == {"modules", "module", "stats", "health"}

\* C6: the array the published reference names never changes while the
\* reference stays the same, and every read answers over the whole array
\* published before or after the step.
C6_RefreshAtomicity ==
    [][ /\ cachedModules' = cachedModules => heap'[cachedModules'] = heap[cachedModules]
        /\ (regRes' # regRes /\ regRes'.op \in ReadOps) =>
              \/ regRes' = ReadResponse(regRes'.op, regRes'.req, heap[cachedModules])
              \/ regRes' = ReadResponse(regRes'.op, regRes'.req, heap'[cachedModules']) ]_vars

C6_Witness ==
    /\ cachedModules = 2
    /\ regRes.op = "modules"
    /\ regRes.status = 200
    /\ regRes.list = Current
    /\ Len(Current) = Len(Dirs)

\* C7: a refresh whose scan fails leaves the published snapshot as it was and
\* does not report success.
C7_FailedRefreshKeepsSnapshot ==
    [][ (PostRefresh /\ ~dirReadable) =>
          /\ heap'[cachedModules'] = heap[cachedModules]
          /\ regRes'.status # 200 ]_vars

\* C13: name is unique in every snapshot: of two descriptors that declare the
\* same name only the first one scanned is kept, so no snapshot holds two
\* records with equal name.
C13_UniqueNames ==
    \A i, j \in DOMAIN Current :
        (i < j /\ Current[i].name # Undef) => Current[j].name # Current[i].name

\* search is a case-insensitive substring of a field the record has
SearchHit(m, search) ==
    \E field \in {m.name, m.displayName, m.description} :
        /\ field # Undef
        /\ includes(toLowerCase(Chars(field)), toLowerCase(Chars(search)))

\* a record satisfies every filter the query supplies
Satisfies(m, q) ==
    /\ q.type # Undef => m.type = q.type
    /\ q.enabled # Undef => m.enabled = q.enabled
    /\ q.search # Undef => SearchHit(m, q.search)

\* C16: GET /api/modules answers with exactly the records of the snapshot
\* that satisfy every supplied filter (type, enabled, search), in snapshot
\* order, with the whole snapshot when no parameter is given, and leaves the
\* snapshot as it was.
C16_FilterSemantics ==
    [][ (regRes' # regRes /\ regRes'.op = "modules") =>
            /\ regRes'.status = 200
            /\ regRes'.list = SelectSeq(Current, LAMBDA m : Satisfies(m, regRes'.req))
            /\ UNCHANGED <<heap, cachedModules>> ]_vars

\* the enabled flag of a record; a descriptor that omits it is enabled
EnabledOf(m) == IF m.enabled = Undef THEN "true" ELSE m.enabled

\* the type a record is counted under
TypeOf(m) == IF m.type = Undef THEN "unknown" ELSE m.type

\* C17: GET /api/stats describes the current snapshot: total is its size,
\* enabled and disabled count the records whose enabled is true and false,
\* withBackend and withFrontend those with a backend and a frontend
\* directory, byType counts per type with a missing type under unknown; so
\* enabled + disabled = total and the byType counts add up to total.
C17_Stats ==
    regRes.op = "stats" =>
        LET st == regRes.stats
            Count(ix) == Cardinality(ix)
        IN  /\ regRes.status = 200
            /\ st.total = Len(Current)
            /\ st.enabled = Count({i \in DOMAIN Current : EnabledOf(Current[i]) = "true"})
            /\ st.disabled = Count({i \in DOMAIN Current : EnabledOf(Current[i]) = "false"})
            /\ st.withBackend = Count({i \in DOMAIN Current : Current[i].hasBackend})
            /\ st.withFrontend = Count({i \in DOMAIN Current : Current[i].hasFrontend})
            /\ \A t \in TypeKeys :
                   st.byType[t] = Count({i \in DOMAIN Current : TypeOf(Current[i]) = t})
            /\ st.enabled + st.disabled = st.total
            /\ st.byType["core"] + st.byType["business"] + st.byType["tool"]
                   + st.byType["unknown"] = st.total

\* the records of the snapshot whose enabled flag, omitted or not, is v
WithEnabled(v) == SelectSeq(Current, LAMBDA m : EnabledOf(m) = v)

\* C18: a descriptor that omits enabled counts as enabled: enabled=true
\* returns it, enabled=false does not, stats.enabled counts it; so the
\* enabled=true list and stats.enabled agree.
C18_EnabledDefault ==
    /\ (regRes.op = "modules" /\ regRes.req = Query(Undef, "true", Undef, Undef))
           => regRes.list = WithEnabled("true")
    /\ (regRes.op = "modules" /\ regRes.req = Query(Undef, "false", Undef, Undef))
           => regRes.list = WithEnabled("false")
    /\ regRes.op = "stats" => regRes.stats.enabled = Len(WithEnabled("true"))
    /\ Len(ModulesQuery(Current, Undef, "true", Undef).list) = StatsBody(Current).enabled

\* the scan made while server.js was loaded failed, and no refresh has run
FirstScanFailed == lastScan.call = "load" /\ lastScan.error

\* C19: when the very first scan fails the registry still starts, with the
\* empty snapshot, and its read endpoints answer over it: GET /api/modules
\* with the empty list, GET /health with modulesCount 0.
C19_FailedFirstScan ==
    FirstScanFailed =>
        /\ Current = <<>>
        /\ regRes.op = "modules" => (regRes.status = 200 /\ regRes.list = <<>>)
        /\ regRes.op = "health" => (regRes.status = 200 /\ regRes.count = 0)
        /\ regRes.op = "stats" => (regRes.status = 200 /\ regRes.stats = NoStats)
        /\ regRes.op = "module" => regRes.status = 404

\* the store holds a descriptor, the directory could not be read at start,
\* and GET /api/modules has been answered
C19_Witness ==
    /\ FirstScanFailed
    /\ \E d \in DirSet : fs[d].kind = "parsed"
    /\ regRes.op = "modules"
    /\ regRes.status = 200
    /\ regRes.list = <<>>

----------------------------------------------------------------------------
(* Properties of the registry's thread, checked under SpecLoop *)

\* C21: the directory scan never runs inline with a request being handled:
\* POST /api/refresh is served without the request-serving thread executing
\* the scan, so no registry request waits for the duration of a scan.
C21_ScanOffRequestPath == waiting # {} => loop # "scanModules"

----------------------------------------------------------------------------
(* Properties of the proxies, checked under SpecProxy *)

\* the rules of the table whose prefix matches a path
MatchingRules(path) == {k \in DOMAIN Table : MountMatches(Table[k].path, path)}

\* among them, those with the longest prefix
LongestRules(path) ==
    {k \in MatchingRules(path) :
        \A j \in MatchingRules(path) : Len(Table[j].path) <= Len(Table[k].path)}

\* C11: when several prefixes of the table are prefixes of a request path,
\* the proxies forward the request to the module with the longest of them,
\* whatever the order of the modules in the snapshot.
C11_LongestPrefix ==
    \A m \in Methods, p \in ProxyPaths :
        MatchingRules(p) # {} =>
            \E k \in LongestRules(p) :
                ProxyAnswer(stack, m, p, up).module = Table[k].module

\* the steps by which a proxy ends an exchange with a response to the client
ProxyResponds == BackendReplies \/ ProxyError

DuplicatedPrefixes ==
    {Table[k].path : k \in {k \in DOMAIN Table :
                                \E j \in DOMAIN Table : j # k /\ Table[j].path = Table[k].path}}

\* the sets of backends that may be accepting connections when a request comes
Reachabilities == {BackendUrls \ down : down \in SUBSET ProxyFlakyUrls}

RulesOf(modules) ==
    LET served == SelectSeq(modules, LAMBDA m : m.backendUrl # Undef)
    IN  [i \in DOMAIN served |->
            [kind |-> "proxy", method |-> Undef,
             path |-> IF served[i].backendPrefix = <<>>
                      THEN <<"api", served[i].name>>
                      ELSE served[i].backendPrefix,
             target |-> served[i].backendUrl,
             module |-> served[i].name]]

\* C20: the route table is built from the snapshot alone: one rule for each
\* descriptor with a backend URL and none for the others, the rule's prefix
\* being backend.prefix when given and /api/<name> otherwise, its target
\* backend.url; the same snapshot gives the same table.
C20_RouteTableBuild ==
    /\ tableSource = "Unbuilt" => Table = <<>>
    /\ tableSource = "Live" => Table = RulesOf(Current)
    /\ tableSource = "Default" => Table = RulesOf(getDefaultModules)

\* a table built from a snapshot of two records: the one without backend has
\* no rule, the one without backend.prefix is mounted on /api/module-y
C20_Witness ==
    /\ tableSource = "Live"
    /\ Len(Current) = 2
    /\ Current[1].backendUrl = Undef
    /\ Current[2].backendPrefix = <<>>
    /\ Len(Table) = 1
    /\ Table[1].path = <<"api", "module-y">>
    /\ Table[1].target = "http://y:9000"

----------------------------------------------------------------------------
(* Properties of the handler stack and of startup, checked under Spec *)

\* C22: requests are tried against the handlers in registration order, and
\* every module proxy is registered ahead of the catch-all 404 handler, so
\* the catch-all answers a request only when no proxy prefix matches its path.
C22_HandlerOrder ==
    /\ \A i, j \in DOMAIN stack :
           (stack[i].kind = "proxy" /\ stack[j].kind = "catchAll") => i < j
    /\ gwRes.by = "notFound" => MatchingRules(gwRes.path) = {}

----------------------------------------------------------------------------
(* The discovery path from the shell to the registry, checked under SpecProxy *)

\* C24: with the default route table, the module-list request of the shell,
\* GET /api/module-market/modules, is forwarded to the registry and, the
\* matched prefix stripped, arrives there at a path the registry serves
\* with the module list.
C24_DiscoveryPath ==
    tableSource = "Default" =>
        LET a == ProxyAnswer(stack, "GET", ModuleListRequest, BackendUrls)
        IN  /\ a.by = "backend"
            /\ a.target = MODULE_MARKET_URL
            /\ RegistryRoute(a.fwdMethod, a.fwdPath) = "modules"

----------------------------------------------------------------------------
(* Properties of the user service, checked under SpecUsers *)

\* no two users of a list have the same username
UniqueUsernames(list) ==
    \A i, j \in DOMAIN list : i < j => list[i].username # list[j].username

\* the body has the three fields POST requires
Complete(body) == Truthy(body.username) /\ Truthy(body.name) /\ Truthy(body.email)

\* C25: after any sequence of POST /api/users, PUT /api/users/:id and
\* DELETE /api/users/:id no two stored users share a username; a create or
\* an update that would introduce a duplicate username is answered 409; and
\* a request answered 400, 404 or 409 leaves the user list unchanged.
C25_UniqueUsernames ==
    [][ /\ UniqueUsernames(users')
        /\ userRes'.status \in {400, 404, 409} => users' = users
        /\ ( /\ userRes'.op = "post"
              /\ Complete(userRes'.body)
              /\ \E i \in DOMAIN users : users[i].username = userRes'.body.username )
            => userRes'.status = 409
        /\ ( /\ userRes'.op = "put"
              /\ IndexOf(users, userRes'.id) # {}
              /\ Truthy(userRes'.body.username)
              /\ \E i \in DOMAIN users :
                     users[i].id # userRes'.id /\ users[i].username = userRes'.body.username )
            => userRes'.status = 409 ]_vars

====
